---- MODULE Spec2Model ----
(***************************************************************************)
(* Model of ganglion_biosensing: the notification decoder                  *)
(* (_GanglionDelegate, _decompress_signed) and the board that owns it      *)
(* (GanglionBoard and its polling thread).                                 *)
(*                                                                         *)
(* Level of the model.  A sample is what the delegate passes to            *)
(* OpenBCISample: a sequence number and the channel data (the class in     *)
(* sample.py declares two more fields, timestamp and board, which the      *)
(* delegate does not pass; they are not modelled).  BitArray.cut yields    *)
(* the full chunks in order; they are taken as a list, so that the slices  *)
(* [:4] and [4:] of _decompress_signed are the first four chunks and the   *)
(* rest.  The board's sample queue is taken to exist.  numpy arrays are    *)
(* sequences; subtraction broadcasts as numpy does and raises ValueError   *)
(* otherwise.  Values stay far from the int32 range within the bounds of   *)
(* the model, so no wrap-around is modelled.  threading.Thread is         *)
(* modelled by its documented rules: start raises RuntimeError on a thread *)
(* started before, join raises RuntimeError on a thread never started.     *)
(***************************************************************************)
EXTENDS Integers, Sequences, FiniteSets, TLC

VARIABLES
    \* _GanglionDelegate (the delegate of the current peripheral)
    last_values,        \* _last_values
    last_id,            \* _last_id
    sample_cnt,         \* _sample_cnt
    wait_for_full_pkt,  \* _wait_for_full_pkt
    result_q,           \* _result_q, the board's sample queue
    \* the latest handleNotification call
    data,               \* its payload
    before,             \* the delegate's fields when it was entered
    put,                \* the samples it put on the queue
    dropped,            \* the gap count _upd_sample_count returned in it
    raised,             \* whether it ended with an exception
    prev_data,          \* the payload of the call before it
    nframes,            \* number of handleNotification calls so far
    \* GanglionBoard
    ganglion,           \* _ganglion: None, or the peripheral (numbered as opened)
    shutdown_event,     \* _shutdown_event.is_set()
    thread,             \* _streaming_thread: "initial", "started", "stopped"
    tpc,                \* where the polling thread is in _streaming
    failure,            \* how the polling thread ended, if by an exception
    mpc,                \* where the owner's thread is in a call on the board
    op,                 \* the latest call of the owner on the board
    err,                \* the exception that call raised, "none" if none
    calls,              \* number of calls of the owner so far
    opened,             \* number of peripheral connections opened so far
    sessions,           \* number of start_streaming calls that cleared the event
    \* the Ganglion device and the radio link to the peripheral
    dev_base,           \* 0: the device numbers its packets 1..100, 100: 101..200
    dev_pos,            \* place in the cycle of the packet the device sends next
    link_ok,            \* the packet before that one was delivered
    pred_delivered      \* the packet before the latest delivered one was delivered

dvars == <<last_values, last_id, sample_cnt, wait_for_full_pkt, result_q,
           data, before, put, dropped, raised, prev_data, nframes>>

bvars == <<ganglion, shutdown_event, thread, tpc, failure, mpc, op, err,
           calls, opened, sessions>>

lvars == <<dev_base, dev_pos, link_ok, pred_delivered>>

vars == <<last_values, last_id, sample_cnt, wait_for_full_pkt, result_q,
          data, before, put, dropped, raised, prev_data, nframes,
          ganglion, shutdown_event, thread, tpc, failure, mpc, op, err,
          calls, opened, sessions,
          dev_base, dev_pos, link_ok, pred_delivered>>

----------------------------------------------------------------------------
(* Bounds *)

\* number of notifications handled
MaxFrames == 3
\* number of calls the owner makes on the board
MaxCalls == 4
\* delta codes tried: packets with the fields c, c+1, .., c+7 for c up to this
MaxCodeBase == 60

----------------------------------------------------------------------------
(* Bit strings: a BitArray is a sequence of 0/1, most significant first. *)

\* f'0b{byte:08b}'
ByteBits(b) == [i \in 1..8 |-> (b \div (2 ^ (8 - i))) % 2]

\* appending the bits of every byte of bs to an empty BitArray
BitsOf(bs) ==
    SubSeq([k \in 1..(8 * Len(bs)) |-> ByteBits(bs[((k - 1) \div 8) + 1])[((k - 1) % 8) + 1]],
           1, 8 * Len(bs))

\* BitArray.cut(n): the full n-bit chunks, in order; a short tail is left out
Cut(bits, n) ==
    SubSeq([c \in 1..(Len(bits) \div n) |-> SubSeq(bits, (c - 1) * n + 1, c * n)],
           1, Len(bits) \div n)

RECURSIVE Uint(_)
\* BitArray.uint
Uint(bits) == IF bits = <<>> THEN 0
              ELSE 2 * Uint(SubSeq(bits, 1, Len(bits) - 1)) + bits[Len(bits)]

\* the chunk read as an unsigned integer
SignedIntAsUnsigned(bits) == Uint(bits)

\* BitArray.int: two's complement
SignedInt(bits) == IF bits[1] = 1 THEN Uint(bits) - 2 ^ Len(bits) ELSE Uint(bits)

\* Python slice xs[a:b] with 0 <= a, b (0-based, end exclusive)
Slice(xs, a, b) == SubSeq(xs, a + 1, IF b < Len(xs) THEN b ELSE Len(xs))

----------------------------------------------------------------------------
(* _decompress_signed *)

\* an odd code read as the negated code
channel_delta_negated(channel_data) ==
    IF channel_data[Len(channel_data)] = 1
    THEN Uint(channel_data) * (-1)
    ELSE Uint(channel_data)

\* one iteration of _process_channels: the delta of one channel field
channel_delta(channel_data) ==
    IF channel_data[Len(channel_data)] = 1
    THEN (Uint(channel_data) - 1) * (-1)
    ELSE Uint(channel_data)

process_channels(sample) == [i \in 1..Len(sample) |-> channel_delta(sample[i])]

\* width of the fields of a compressed packet
FieldBits(pkt_id) == IF pkt_id <= 100 THEN 18 ELSE 19

decompress_signed(pkt_id, bit_array) ==
    LET channel_samples == Cut(bit_array, FieldBits(pkt_id))
    IN  <<process_channels(Slice(channel_samples, 0, 4)),
          process_channels(Slice(channel_samples, 4, Len(channel_samples)))>>

----------------------------------------------------------------------------
(* numpy *)

\* whether numpy can subtract two 1-d arrays of these shapes
Broadcastable(a, b) == Len(a) = Len(b) \/ Len(a) = 1 \/ Len(b) = 1

\* a + b in place of a - b
NpSubAsAdd(a, b) ==
    IF Len(a) = Len(b) THEN [i \in 1..Len(a) |-> a[i] + b[i]]
    ELSE IF Len(a) = 1 THEN [i \in 1..Len(b) |-> a[1] + b[i]]
    ELSE [i \in 1..Len(a) |-> a[i] + b[1]]

\* a - b on 1-d arrays, with broadcasting
NpSub(a, b) ==
    IF Len(a) = Len(b) THEN [i \in 1..Len(a) |-> a[i] - b[i]]
    ELSE IF Len(a) = 1 THEN [i \in 1..Len(b) |-> a[1] - b[i]]
    ELSE [i \in 1..Len(a) |-> a[i] - b[1]]

----------------------------------------------------------------------------
(* Samples *)

NaN4 == <<"NaN", "NaN", "NaN", "NaN">>

\* OpenBCISample(seq, channel_data) carrying decoded values
DataSample(n, v) == [seq |-> n, nan |-> FALSE, channel_data |-> v]

\* OpenBCISample(seq, np.array([np.NaN] * 4))
DummySample(n) == [seq |-> n, nan |-> TRUE, channel_data |-> NaN4]

----------------------------------------------------------------------------
(* _GanglionDelegate._upd_sample_count *)

\* only tag 0 left out of the drop accounting
SyncTagsFullOnly == {0}

\* the tags left out of the drop accounting
SyncTags == {0, 206, 207}

\* `dropped` without the branch for last_id == 0
DroppedOneBranch(num, lid) ==
    IF num \notin SyncTags THEN (num - lid) - 1 ELSE 0

\* the value of `dropped` for tag num after tag lid
Dropped(num, lid) ==
    IF num \notin SyncTags
    THEN IF lid = 0
         THEN IF num >= 101 THEN num - 101 ELSE num - 1
         ELSE (num - lid) - 1
    ELSE 0

\* a loop that makes one pair of dummy samples per lost packet only
DummyRoundsLostOnly(num, d) ==
    IF num \notin SyncTags /\ d >= 0 THEN d ELSE 0

\* number of iterations of `for i in range(dropped, -1, -1)`
DummyRounds(num, d) ==
    IF num \notin SyncTags /\ d >= 0 THEN d + 1 ELSE 0

\* _upd_sample_count without `self._sample_cnt += 2`
upd_sample_count_no_advance(num, lid, cnt) ==
    LET d == Dropped(num, lid)
        rounds == DummyRounds(num, d)
    IN  [dropped       |-> d,
         dummy_samples |-> [k \in 1..(2 * rounds) |-> DummySample(cnt + k - 1)],
         sample_cnt    |-> cnt,
         last_id       |-> num]

\* [dropped, dummy_samples] returned, and the fields it leaves behind
upd_sample_count(num, lid, cnt) ==
    LET d == Dropped(num, lid)
        rounds == DummyRounds(num, d)
    IN  [dropped       |-> d,
         dummy_samples |-> [k \in 1..(2 * rounds) |-> DummySample(cnt + k - 1)],
         sample_cnt    |-> cnt + 2 * rounds,
         last_id       |-> num]

----------------------------------------------------------------------------
(* _GanglionDelegate *)

\* the fields of a decoder, as one record
Decoder == [last_values |-> last_values, last_id |-> last_id,
            sample_cnt |-> sample_cnt, wait_for_full_pkt |-> wait_for_full_pkt]

\* _GanglionDelegate.__init__
NewDecoder == [last_values |-> <<0, 0, 0, 0>>, last_id |-> -1,
               sample_cnt |-> 0, wait_for_full_pkt |-> TRUE]

\* outcome of a call: the decoder afterwards, the samples put, the gap count
\* computed (0 if none was), and whether the call raised
Outcome(dec, samples, gap, exc) ==
    [dec |-> dec, put |-> samples, dropped |-> gap, raised |-> exc]

\* `results` of the branch for an uncompressed packet: the 24-bit chunks of
\* data[1:13], each read as a signed integer
FullValues(d) ==
    LET chunks == Cut(BitsOf(Slice(d, 1, 13)), 24)
    IN  SubSeq([i \in 1..Len(chunks) |-> SignedInt(chunks[i])], 1, Len(chunks))

\* the branch for an uncompressed packet (start_byte == 0)
HandleFull(st, d) ==
    LET results == FullValues(d)
    IN  Outcome([st EXCEPT !.last_values = results, !.sample_cnt = @ + 1],
                <<DataSample(st.sample_cnt, results)>>, 0, FALSE)

\* delta_1, delta_2 of the branch for a compressed packet
Deltas(d) == decompress_signed(d[1], BitsOf(Slice(d, 1, Len(d))))

\* the branch for a compressed packet (1 <= start_byte <= 200)
HandleCompressed(st, d) ==
    LET deltas == Deltas(d)
        delta_1 == deltas[1]
        delta_2 == deltas[2]
    IN  IF ~Broadcastable(st.last_values, delta_1)
        THEN Outcome(st, <<>>, 0, TRUE)
        ELSE LET tmp_value == NpSub(st.last_values, delta_1)
             IN  IF ~Broadcastable(tmp_value, delta_2)
                 THEN Outcome(st, <<>>, 0, TRUE)
                 ELSE LET new_values == NpSub(tmp_value, delta_2)
                      IN  Outcome([st EXCEPT !.last_values = new_values,
                                             !.sample_cnt = @ + 2],
                                  <<DataSample(st.sample_cnt, tmp_value),
                                    DataSample(st.sample_cnt + 1, new_values)>>,
                                  0, FALSE)

\* a test for compressed packets without its upper end
IsCompressedNoUpper(start_byte) == 1 <= start_byte

\* `elif 1 <= start_byte <= 200`
IsCompressed(start_byte) == 1 <= start_byte /\ start_byte <= 200

\* the decoding part of handleNotification, after the drop checks
Decode(st, d) ==
    IF d[1] = 0 THEN HandleFull(st, d)
    ELSE IF IsCompressed(d[1]) THEN HandleCompressed(st, d)
    ELSE Outcome(st, <<>>, 0, FALSE)

\* a decoder that never waits for a full packet
DiscardedNever(waiting, start_byte) == FALSE

\* whether the packet is discarded because the decoder waits for a full one
Discarded(waiting, start_byte) == waiting /\ start_byte # 0

\* `dropped >= 0` in place of `dropped > 0`
GapDetectedOrNone(d) == d >= 0

\* whether the packet reveals lost packets
GapDetected(d) == d > 0

\* an empty payload counted as a sample
HandleEmptyCounted(dec) == Outcome([dec EXCEPT !.sample_cnt = @ + 1], <<>>, 0, FALSE)

\* the early return for a payload without a tag byte
HandleEmpty(dec) == Outcome(dec, <<>>, 0, FALSE)

\* _GanglionDelegate.handleNotification(cHandle, d) on a decoder dec
HandleNotification(dec, d) ==
    IF Len(d) < 1 THEN HandleEmpty(dec)
    ELSE
    LET start_byte == d[1]
        upd == upd_sample_count(start_byte, dec.last_id, dec.sample_cnt)
        st0 == [dec EXCEPT !.last_id = upd.last_id, !.sample_cnt = upd.sample_cnt]
    IN  IF Discarded(dec.wait_for_full_pkt, start_byte)
        THEN Outcome(st0, upd.dummy_samples, upd.dropped, FALSE)
        ELSE LET st1 == [st0 EXCEPT !.wait_for_full_pkt = FALSE]
             IN  IF GapDetected(upd.dropped)
                 THEN Outcome([st1 EXCEPT !.wait_for_full_pkt = TRUE],
                              upd.dummy_samples, upd.dropped, FALSE)
                 ELSE LET r == Decode(st1, d)
                      IN  Outcome(r.dec, r.put, upd.dropped, r.raised)

----------------------------------------------------------------------------
(* Notifications given to the decoder *)

Zeros(n) == [i \in 1..n |-> 0]

\* four 24-bit values: 5, -5, 256, -8388608
AbsA == <<0, 0, 5, 255, 255, 251, 0, 1, 0, 128, 0, 0>>
\* four 24-bit values: 9, 9, 9, 9
AbsB == <<0, 0, 9, 0, 0, 9, 0, 0, 9, 0, 0, 9>>
\* eight 18-bit codes: 2, 3, 1, 0, 4, 5, 0, 7
Codes18 == <<0, 0, 128, 0, 48, 0, 4, 0, 0, 0, 1, 0, 0, 80, 0, 0, 0, 7>>
\* eight 19-bit codes: 2, 3, 1, 0, 4, 5, 0, 7
Codes19 == <<0, 0, 64, 0, 12, 0, 0, 128, 0, 0, 0, 8, 0, 1, 64, 0, 0, 0, 7>>

Frames ==
    { <<>>,
      <<0>> \o AbsA, <<0>> \o AbsB, <<0>>, <<0>> \o Zeros(5),
      <<1>> \o Zeros(18), <<1>> \o Codes18, <<1>> \o Zeros(3), <<1>> \o Zeros(12),
      <<2>> \o Codes18,
      <<50>> \o Zeros(18), <<52>> \o Codes18,
      <<101>> \o Codes19, <<101>> \o Zeros(18), <<105>> \o Zeros(19),
      <<206>>, <<207, 1, 2>>, <<203, 7>> }

----------------------------------------------------------------------------
(* The delegate alone, under a stream of notifications *)

None == 0

\* GanglionBoard.__init__
BoardInit ==
    /\ ganglion = None
    /\ shutdown_event = TRUE
    /\ thread = "initial"
    /\ tpc = "send"
    /\ failure = "none"
    /\ mpc = "idle"
    /\ op = "init"
    /\ err = "none"
    /\ calls = 0
    /\ opened = 0
    /\ sessions = 0

\* _GanglionDelegate.__init__, before any notification
DelegateInit ==
    /\ last_values = NewDecoder.last_values
    /\ last_id = NewDecoder.last_id
    /\ sample_cnt = NewDecoder.sample_cnt
    /\ wait_for_full_pkt = NewDecoder.wait_for_full_pkt
    /\ result_q = <<>>
    /\ data = <<>>
    /\ before = NewDecoder
    /\ put = <<>>
    /\ dropped = 0
    /\ raised = FALSE
    /\ prev_data = <<>>
    /\ nframes = 0

\* a device that has sent nothing yet
DeviceInit ==
    /\ dev_pos = 0
    /\ link_ok = TRUE
    /\ pred_delivered = TRUE

Init == DelegateInit /\ BoardInit /\ DeviceInit /\ dev_base = 0

\* the delegate's handleNotification is called with payload d
Notify(d) ==
    /\ nframes < MaxFrames
    /\ \E r \in {HandleNotification(Decoder, d)} :
           /\ last_values' = r.dec.last_values
           /\ last_id' = r.dec.last_id
           /\ sample_cnt' = r.dec.sample_cnt
           /\ wait_for_full_pkt' = r.dec.wait_for_full_pkt
           /\ result_q' = result_q \o r.put
           /\ put' = r.put
           /\ dropped' = r.dropped
           /\ raised' = r.raised
    /\ before' = Decoder
    /\ data' = d
    /\ prev_data' = data
    /\ nframes' = nframes + 1

\* one notification given to the delegate; after an exception of the delegate
\* no further notification reaches it (the polling loop that feeds it returns)
handleNotification(d) ==
    /\ ~raised
    /\ Notify(d)
    /\ UNCHANGED <<bvars, lvars>>

Next == \E d \in Frames : handleNotification(d)

Spec == Init /\ [][Next]_vars

----------------------------------------------------------------------------
(* The delegate under compressed packets of chosen delta codes *)

\* the payload of a compressed packet whose eight n-bit fields are c .. c+7:
\* byte j holds the bits 8j-7 .. 8j of the fields laid end to end
PackedFields(c, n) ==
    LET bit(k) == ((c + ((k - 1) \div n)) \div (2 ^ (n - 1 - ((k - 1) % n)))) % 2
    IN  [j \in 1..n |->
            128 * bit(8 * j - 7) + 64 * bit(8 * j - 6) + 32 * bit(8 * j - 5)
          + 16 * bit(8 * j - 4) + 8 * bit(8 * j - 3) + 4 * bit(8 * j - 2)
          + 2 * bit(8 * j - 1) + bit(8 * j)]

\* the tags tried, one of each field width
CodecTags == {1, 101}

\* the first field codes tried for tag t: the small ones and the largest
CodeBases(t) == (0..MaxCodeBase) \cup {2 ^ FieldBits(t) - 8}

CodecFrame(t, c) == <<t>> \o PackedFields(c, FieldBits(t))

\* a tag-0 packet with the values 9, 9, 9, 9 starts the stream
codec_full ==
    /\ nframes = 0
    /\ Notify(<<0>> \o AbsB)
    /\ UNCHANGED <<bvars, lvars>>

\* the compressed packet with tag t and fields c .. c+7 follows it
codec_compressed(t, c) ==
    /\ nframes = 1
    /\ Notify(CodecFrame(t, c))
    /\ UNCHANGED <<bvars, lvars>>

NextCodec ==
    \/ codec_full
    \/ \E t \in CodecTags : \E c \in CodeBases(t) : codec_compressed(t, c)

SpecCodec == Init /\ [][NextCodec]_vars

----------------------------------------------------------------------------
(* Properties of the delegate (checked under Spec) *)

\* a notification has been handled and it had a tag byte
Tagged == nframes > 0 /\ Len(data) >= 1

AllDummies(samples) == \A i \in 1..Len(samples) : samples[i].nan

\* the payload after the tag has the length the format of the tag asks for
WellFormed(d) ==
    /\ Len(d) >= 1
    /\ \/ d[1] = 0 /\ Len(d) - 1 = 12
       \/ 1 <= d[1] /\ d[1] <= 100 /\ Len(d) - 1 = 18
       \/ 101 <= d[1] /\ d[1] <= 200 /\ Len(d) - 1 = 19

\* the payload after the tag is shorter than the format of the tag asks for
TooShort(d) ==
    /\ Len(d) >= 1
    /\ \/ d[1] = 0 /\ Len(d) - 1 < 12
       \/ 1 <= d[1] /\ d[1] <= 100 /\ Len(d) - 1 < 18
       \/ 101 <= d[1] /\ d[1] <= 200 /\ Len(d) - 1 < 19

C2_SeqStrictlyIncreasing ==
    \A i \in 1..(Len(result_q) - 1) : result_q[i].seq < result_q[i + 1].seq

\* dummy samples, then data samples, then dummy samples again are on the queue
C2_Witness ==
    /\ Len(result_q) >= 3
    /\ result_q[1].nan
    /\ \E j \in 2..(Len(result_q) - 1) : ~result_q[j].nan
    /\ result_q[Len(result_q)].nan

C6_EmptyPayloadIgnored ==
    (nframes > 0 /\ Len(data) = 0) =>
        /\ put = <<>>
        /\ Decoder = before
        /\ ~raised

\* an empty payload was handled by a streaming decoder
C6_Witness ==
    /\ nframes >= 2 /\ Len(data) = 0
    /\ before.last_id # NewDecoder.last_id
    /\ ~before.wait_for_full_pkt

\* C7: a call with a payload shorter than the format of its tag asks for
\* puts no sample, changes no field of the decoder and does not raise.
C7_ShortPayloadDropped ==
    (nframes > 0 /\ TooShort(data)) =>
        /\ put = <<>>
        /\ Decoder = before
        /\ ~raised

\* the gap count of tag num after tag lid, as the specification gives it
GapCount(num, lid) ==
    IF num \in {0, 206, 207} THEN 0
    ELSE IF lid = 0 THEN (IF num >= 101 THEN num - 101 ELSE num - 1)
    ELSE (num - lid) - 1

C13_MarkerAdvancesCounter ==
    (Tagged /\ data[1] \in {206, 207}) =>
        /\ put = <<>>
        /\ sample_cnt = before.sample_cnt + 1
        /\ last_id = data[1]
        /\ last_values = before.last_values

\* C13 amended: a packet with tag 206 or 207 puts no sample, leaves the
\* counter, last_values and the waiting flag as they were, and sets last_id
\* to its tag.
C13_MarkerKeepsCounter ==
    (Tagged /\ data[1] \in {206, 207}) =>
        /\ ~raised
        /\ put = <<>>
        /\ sample_cnt = before.sample_cnt
        /\ last_id = data[1]
        /\ last_values = before.last_values
        /\ wait_for_full_pkt = before.wait_for_full_pkt

\* a streaming decoder that had put samples handled a marker packet
C13_Witness ==
    /\ Tagged /\ data[1] = 207
    /\ ~before.wait_for_full_pkt
    /\ before.sample_cnt > 0 /\ before.last_id # 207

----------------------------------------------------------------------------
(* Properties of the delta codes (checked under SpecCodec) *)

\* the delta of a code, as the specification gives it
SpecDelta(code) == IF code % 2 = 1 THEN -(code - 1) ELSE code

----------------------------------------------------------------------------
(* GanglionBoard: the owner's calls and the polling thread *)

\* the notifications the board's peripheral delivers
BoardFrames == { <<0>> \o AbsA, <<1>> \o Codes18, <<1>> \o Zeros(3), <<3>> \o Zeros(18) }

\* GanglionBoard.is_streaming
is_streaming == ~shutdown_event

\* connect without its test
AlreadyConnectedNever(g) == FALSE

\* `if self._ganglion:` of connect
AlreadyConnected(g) == g # None

\* a call of the owner starts: the board is not inside another call
Call(name) ==
    /\ mpc = "idle"
    /\ calls < MaxCalls
    /\ calls' = calls + 1
    /\ op' = name

\* GanglionBoard.connect
connect ==
    /\ Call("connect")
    /\ IF AlreadyConnected(ganglion)
       THEN /\ err' = "OSError"
            /\ UNCHANGED <<ganglion, opened, last_values, last_id, sample_cnt,
                           wait_for_full_pkt>>
       ELSE /\ err' = "none"
            /\ opened' = opened + 1
            /\ ganglion' = opened + 1
            /\ last_values' = NewDecoder.last_values
            /\ last_id' = NewDecoder.last_id
            /\ sample_cnt' = NewDecoder.sample_cnt
            /\ wait_for_full_pkt' = NewDecoder.wait_for_full_pkt
    /\ UNCHANGED <<result_q, data, before, put, dropped, raised, prev_data, nframes,
                   shutdown_event, thread, tpc, failure, mpc, sessions>>
    /\ UNCHANGED lvars

\* GanglionBoard.start_streaming; Thread.start raises on a thread started before
start_streaming ==
    /\ Call("start_streaming")
    /\ IF ~shutdown_event
       THEN /\ err' = "none"
            /\ UNCHANGED <<shutdown_event, thread, tpc, sessions>>
       ELSE /\ shutdown_event' = FALSE
            /\ sessions' = sessions + 1
            /\ IF thread = "initial"
               THEN /\ thread' = "started"
                    /\ tpc' = "send"
                    /\ err' = "none"
               ELSE /\ err' = "RuntimeError"
                    /\ UNCHANGED <<thread, tpc>>
    /\ UNCHANGED <<dvars, ganglion, failure, mpc, opened>>
    /\ UNCHANGED lvars

\* GanglionBoard.stop_streaming up to the join; Thread.join raises on a thread
\* never started
stop_streaming ==
    /\ Call("stop_streaming")
    /\ shutdown_event' = TRUE
    /\ IF thread = "initial"
       THEN err' = "RuntimeError" /\ mpc' = "idle"
       ELSE err' = "none" /\ mpc' = "stop_join"
    /\ UNCHANGED <<dvars, ganglion, thread, tpc, failure, opened, sessions>>
    /\ UNCHANGED lvars

\* the join of stop_streaming returns: the polling thread has ended
stop_joined ==
    /\ mpc = "stop_join"
    /\ thread = "stopped"
    /\ mpc' = "idle"
    /\ UNCHANGED <<dvars, ganglion, shutdown_event, thread, tpc, failure, op, err,
                   calls, opened, sessions>>
    /\ UNCHANGED lvars

\* GanglionBoard.disconnect up to the join of its stop_streaming, or to its end
disconnect ==
    /\ Call("disconnect")
    /\ IF ganglion = None
       THEN /\ err' = "none"
            /\ UNCHANGED <<ganglion, shutdown_event, mpc>>
       ELSE IF ~shutdown_event
            THEN /\ shutdown_event' = TRUE
                 /\ IF thread = "initial"
                    THEN err' = "RuntimeError" /\ mpc' = "idle"
                    ELSE err' = "none" /\ mpc' = "disconnect_join"
                 /\ UNCHANGED ganglion
            ELSE /\ err' = "none"
                 /\ ganglion' = None
                 /\ UNCHANGED <<shutdown_event, mpc>>
    /\ UNCHANGED <<dvars, thread, tpc, failure, opened, sessions>>
    /\ UNCHANGED lvars

\* the join inside disconnect returns; the peripheral is disconnected and dropped
disconnect_joined ==
    /\ mpc = "disconnect_join"
    /\ thread = "stopped"
    /\ ganglion' = None
    /\ mpc' = "idle"
    /\ UNCHANGED <<dvars, shutdown_event, thread, tpc, failure, op, err,
                   calls, opened, sessions>>
    /\ UNCHANGED lvars

\* BaseBiosensingBoard.__exit__ up to the join of its stop_streaming; an
\* exception of stop_streaming leaves __exit__ before its disconnect
exit ==
    /\ Call("exit")
    /\ shutdown_event' = TRUE
    /\ IF thread = "initial"
       THEN err' = "RuntimeError" /\ mpc' = "idle"
       ELSE err' = "none" /\ mpc' = "exit_join"
    /\ UNCHANGED <<dvars, ganglion, thread, tpc, failure, opened, sessions>>
    /\ UNCHANGED lvars

\* the join inside __exit__ returns and __exit__ calls disconnect, which finds
\* the event set
exit_joined ==
    /\ mpc = "exit_join"
    /\ thread = "stopped"
    /\ ganglion' = None
    /\ mpc' = "idle"
    /\ UNCHANGED <<dvars, shutdown_event, thread, tpc, failure, op, err,
                   calls, opened, sessions>>
    /\ UNCHANGED lvars

\* a loop that never sees the event
ShutdownSeenNever(ev) == FALSE

\* `while not self._shutdown_event.is_set()`: the loop ends when the event is set
ShutdownSeen(ev) == ev

\* the polling thread ends
ThreadEnds(how) ==
    /\ thread' = "stopped"
    /\ tpc' = "done"
    /\ failure' = how

\* _streaming: send_command(STREAM_START); without a peripheral the attribute
\* access raises and the thread dies
stream_start ==
    /\ thread = "started"
    /\ tpc = "send"
    /\ IF ganglion = None
       THEN ThreadEnds("AttributeError")
       ELSE tpc' = "loop" /\ UNCHANGED <<thread, failure>>
    /\ UNCHANGED <<dvars, ganglion, shutdown_event, mpc, op, err, calls, opened,
                   sessions>>
    /\ UNCHANGED lvars

\* _streaming: the test of the while loop
loop_test ==
    /\ thread = "started"
    /\ tpc = "loop"
    /\ IF ShutdownSeen(shutdown_event)
       THEN ThreadEnds("none")
       ELSE tpc' = "wait" /\ UNCHANGED <<thread, failure>>
    /\ UNCHANGED <<dvars, ganglion, shutdown_event, mpc, op, err, calls, opened,
                   sessions>>
    /\ UNCHANGED lvars

\* waitForNotifications returns after its timeout, nothing received
wait_timeout ==
    /\ thread = "started"
    /\ tpc = "wait"
    /\ tpc' = "loop"
    /\ UNCHANGED <<dvars, ganglion, shutdown_event, thread, failure, mpc, op, err,
                   calls, opened, sessions>>
    /\ UNCHANGED lvars

\* waitForNotifications receives d and calls the delegate; an exception of the
\* delegate leaves waitForNotifications and is caught by the loop, which returns
wait_notified(d) ==
    /\ thread = "started"
    /\ tpc = "wait"
    /\ Notify(d)
    /\ IF raised'
       THEN ThreadEnds("delegate")
       ELSE tpc' = "loop" /\ UNCHANGED <<thread, failure>>
    /\ UNCHANGED <<ganglion, shutdown_event, mpc, op, err, calls, opened, sessions>>
    /\ UNCHANGED lvars

\* waitForNotifications raises: the loop logs and returns
wait_raises ==
    /\ thread = "started"
    /\ tpc = "wait"
    /\ ThreadEnds("transport")
    /\ UNCHANGED <<dvars, ganglion, shutdown_event, mpc, op, err, calls, opened,
                   sessions>>
    /\ UNCHANGED lvars

NextBoard ==
    \/ connect
    \/ disconnect
    \/ disconnect_joined
    \/ start_streaming
    \/ stop_streaming
    \/ stop_joined
    \/ exit
    \/ exit_joined
    \/ stream_start
    \/ loop_test
    \/ wait_timeout
    \/ \E d \in BoardFrames : wait_notified(d)
    \/ wait_raises

SpecBoard == Init /\ [][NextBoard]_vars

\* the polling thread takes its steps, every waitForNotifications call returns
\* (with a notification, after its timeout or with an exception), and a join
\* returns once the thread has ended
SpecBoardFair ==
    /\ SpecBoard
    /\ WF_vars(stream_start)
    /\ WF_vars(loop_test)
    /\ WF_vars(wait_timeout \/ wait_raises \/ \E d \in BoardFrames : wait_notified(d))
    /\ WF_vars(stop_joined)

----------------------------------------------------------------------------
(* The delegate behind a lossy link *)

\* the tag of the packet at place pos of the device's cycle 0, b+1, .., b+100
DevTag(base, pos) == IF pos = 0 THEN 0 ELSE base + pos

\* the packet at that place: values 9, 9, 9, 9 or eight zero codes
DevFrame(base, pos) ==
    IF pos = 0
    THEN <<0>> \o AbsB
    ELSE <<DevTag(base, pos)>> \o Zeros(FieldBits(DevTag(base, pos)))

\* the lengths of the runs of lost packets tried
LossLengths == {1, 2, 100, 101}

InitLossy ==
    /\ DelegateInit /\ BoardInit /\ DeviceInit
    /\ dev_base \in {0, 100}

\* the device's next packet reaches the delegate
lossy_deliver ==
    /\ ~raised
    /\ Notify(DevFrame(dev_base, dev_pos))
    /\ pred_delivered' = link_ok
    /\ link_ok' = TRUE
    /\ dev_pos' = (dev_pos + 1) % 101
    /\ UNCHANGED <<bvars, dev_base>>

\* the device's next n packets are lost
lossy_lose(n) ==
    /\ link_ok
    /\ nframes < MaxFrames
    /\ link_ok' = FALSE
    /\ dev_pos' = (dev_pos + n) % 101
    /\ UNCHANGED <<dvars, bvars, dev_base, pred_delivered>>

NextLossy ==
    \/ lossy_deliver
    \/ \E n \in LossLengths : lossy_lose(n)

SpecLossy == InitLossy /\ [][NextLossy]_vars

----------------------------------------------------------------------------
(* Properties of the board (checked under SpecBoard) *)

\* C8: after stop_streaming followed by start_streaming on the same board,
\* the decoder that is to handle the next notification is a fresh one:
\* last_values zero, last_id the "none yet" value, waiting for a full packet.
C8_FreshDecoderAfterRestart ==
    ( /\ sessions >= 2
      /\ op = "start_streaming"
      /\ ganglion # None ) => Decoder = NewDecoder

\* C9: once waitForNotifications has raised and the polling loop has ended,
\* the board shows its owner that the session is over: is_streaming is false.
C9_TransportFailureSurfaced ==
    (failure = "transport" /\ thread = "stopped") => ~is_streaming

\* C10: a connect call on a connected board raises OSError and opens no
\* peripheral; the peripheral, the fields of its delegate, the queue, the
\* shutdown event and the polling thread are as they were.
C10_DoubleConnectRejected ==
    [][ (calls' = calls + 1 /\ op' = "connect" /\ ganglion # None) =>
            /\ err' = "OSError"
            /\ mpc' = "idle"
            /\ UNCHANGED <<ganglion, opened, last_values, last_id, sample_cnt,
                           wait_for_full_pkt, result_q, shutdown_event, thread,
                           tpc, failure>> ]_vars

\* connect was called on a connected, streaming board whose delegate had
\* handled notifications
C10_Witness ==
    /\ op = "connect" /\ err = "OSError"
    /\ ganglion # None /\ opened = 1
    /\ is_streaming
    /\ last_id # NewDecoder.last_id

\* C17: on a streaming board whose waitForNotifications calls all return,
\* a stop_streaming call that has set the event and waits in join leads to:
\* the polling loop has seen the event and ended, stop_streaming has returned
\* and is_streaming is false.
C17_StopStreamingReturns ==
    (mpc = "stop_join") ~>
        (mpc = "idle" /\ op = "stop_streaming" /\ thread = "stopped" /\ ~is_streaming)

\* connect, start_streaming, stop_streaming: the loop handled notifications,
\* saw the event and ended, and stop_streaming has returned
C17_Witness ==
    /\ calls = 3 /\ sessions = 1
    /\ op = "stop_streaming" /\ err = "none" /\ mpc = "idle"
    /\ thread = "stopped" /\ failure = "none"
    /\ nframes > 0
    /\ ~is_streaming

\* C19: once __exit__ has run on a board that was connected, the board holds
\* no connection (the peripheral has been disconnected), whatever was called
\* inside the with block, also when start_streaming never was.
C19_ExitDisconnects ==
    (op = "exit" /\ mpc = "idle" /\ opened >= 1) => ganglion = None

\* C20: in every state where no call on the board is in progress,
\* is_streaming is true only if the polling loop is still running.
C20_IsStreamingReflectsThread ==
    (mpc = "idle" /\ is_streaming) => thread = "started"

----------------------------------------------------------------------------
(* Properties of the delegate behind a lossy link (checked under SpecLossy) *)

====
